---- MODULE Spec2Model ----
(***************************************************************************)
(* Chunked, resumable transcript summarization of chronicle:               *)
(* Summarizer.summarize_session_chunked and the quota-aware model selector *)
(* (backend/services/summarizer.py), as called by the CLI commands         *)
(* (backend/cli/commands.py).                                              *)
(*                                                                         *)
(* One session is modelled.  Its transcript is fixed for a behaviour (only *)
(* its line count total_lines matters: the text of a chunk is determined   *)
(* by its line range).  A summary is a tuple; the empty string is <<>>.    *)
(* The provider is an injective function of the prompt (generate), so two  *)
(* summaries are equal exactly when they were produced from the same line  *)
(* range and the same previous summary.                                    *)
(*                                                                         *)
(* use_cli is FALSE, as in every call of the repository (the session,      *)
(* summarize-chunked and import commands).  A run is a sequence of steps   *)
(* (pc); the commit of a chunk record and the final write-back are one     *)
(* database transaction each, so an interruption (Crash) falls between     *)
(* steps and loses only the run's local state.                             *)
(*                                                                         *)
(* Spec is the orchestrator.  SpecStore applies the save step of a chunk   *)
(* to any chunk in any order, and SpecLedger applies _increment_usage to   *)
(* any model over several days; usage is the request_count column of the   *)
(* ledger's rows of the current day.  A provider response is a non-empty   *)
(* text.                                                                   *)
(***************************************************************************)
EXTENDS Integers, Sequences, FiniteSets

\* ---------------------------------------------------------------- bounds
MaxRuns == 3      \* calls of summarize_session_chunked in one behaviour
Headroom == 1     \* a model starts the day with 0..Headroom requests left
Spread == 1       \* transcript sizes lie within Spread lines of a boundary
Overshoot == 1    \* a model may start up to Overshoot requests over its limit
MaxDay == 2       \* days a behaviour of the Quota Ledger alone spans
MaxRequests == 3  \* requests a behaviour of the Quota Ledger alone records
MaxCalls == 4     \* provider calls a behaviour of the Rate Governor spans
MaxScans == 3     \* calls of scan_repo in one behaviour

\* ------------------------------------------------------ program constants
DefaultChunkSize == 3000    \* chunk_size_lines default of the signature
CliChunkSize == 10000       \* chunk size passed by the CLI commands
MediumChunkSize == 5000
LargeChunkSize == 10000
MediumThreshold == 10000
LargeThreshold == 50000
max_retries == 5
FlashPreviewLimit == 250
Flash25Limit == 250
Flash20Limit == 200
FlashLiteLimit == 1000
rate_limit == 900000        \* tokens per minute the governor allows
WindowSeconds == 60         \* length of the rolling window
BufferSeconds == 2          \* added to the wait for the oldest request
DefaultDelay == 8           \* wait between chunks when under the limit
RetryBuffer == 2            \* added to the wait a rate-limit exception names

None == "None"            \* no model
NoSummary == <<"None">>   \* Python None where a summary string is expected
EmptySummary == <<>>

Min(a, b) == IF a < b THEN a ELSE b

SetMin(S) == CHOOSE x \in S : \A y \in S : x <= y

\* -------------------------------------------------------- model catalog
GeminiModel == {"FLASH_PREVIEW", "FLASH_2_5", "FLASH_2_0", "FLASH_LITE"}

daily_limit(m) ==
    CASE m = "FLASH_PREVIEW" -> FlashPreviewLimit
      [] m = "FLASH_2_5"     -> Flash25Limit
      [] m = "FLASH_2_0"     -> Flash20Limit
      [] m = "FLASH_LITE"    -> FlashLiteLimit

\* one order for every complexity
preferred_order_fixed(cplx) ==
    <<"FLASH_PREVIEW", "FLASH_2_5", "FLASH_2_0", "FLASH_LITE">>

preferred_order(cplx) ==
    IF cplx = "large"
    THEN <<"FLASH_2_0", "FLASH_LITE", "FLASH_PREVIEW", "FLASH_2_5">>
    ELSE <<"FLASH_PREVIEW", "FLASH_2_5", "FLASH_2_0", "FLASH_LITE">>

\* request_count of today's row of the ledger u, 0 when there is no row
get_usage_for_date(u, m) == u[m]

\* a model exactly at its limit still counts as available
HasQuota_inclusive(u, m) == daily_limit(m) - get_usage_for_date(u, m) >= 0

HasQuota(u, m) == daily_limit(m) - get_usage_for_date(u, m) > 0

\* first model of the preferred order with quota remaining, or None
select_best_available_model(cplx, u) ==
    LET order == preferred_order(cplx)
        avail == {i \in 1..Len(order) : HasQuota(u, order[i])}
    IN  IF avail = {} THEN None ELSE order[SetMin(avail)]

\* the call is recorded for the first model of the catalog
increment_usage_first(u, m) == [u EXCEPT !["FLASH_PREVIEW"] = @ + 1]

increment_usage(u, m) == [u EXCEPT ![m] = @ + 1]

\* the rows of the table for model m on day d
RowsOf(table, m, d) == {r \in table : r.model_name = m /\ r.date = d}

\* the next value of the autoincrement primary key (no row is ever deleted)
NextId(table) == Cardinality(table) + 1

\* a new row for model m on day d recording one call
NewRow(table, m, d, input_chars, output_chars) ==
    [id |-> NextId(table), model_name |-> m, date |-> d, request_count |-> 1,
     total_input_characters |-> input_chars,
     total_output_characters |-> output_chars,
     total_input_tokens |-> input_chars \div 4,
     total_output_tokens |-> output_chars \div 4]

\* the row read earlier, with one more call added to what was read
UpdatedRow(row, input_chars, output_chars) ==
    [row EXCEPT
        !.request_count = @ + 1,
        !.total_input_characters = @ + input_chars,
        !.total_output_characters = @ + output_chars,
        !.total_input_tokens = @ + (input_chars \div 4),
        !.total_output_tokens = @ + (output_chars \div 4)]

\* lines 172-191: the write and commit of _increment_usage, given the rows
\* its query found: the row read is written back by primary key with its
\* counters as read plus the call, or a row is inserted when none was found
commit_usage_row(table, found, m, d, input_chars, output_chars) ==
    LET row == CHOOSE r \in found : \A q \in found : r.id <= q.id
    IN  IF found # {}
        THEN {r \in table : r.id # row.id} \cup
                 {UpdatedRow(row, input_chars, output_chars)}
        ELSE table \cup {NewRow(table, m, d, input_chars, output_chars)}

\* a fresh row is written, whether the day's row exists or not
increment_usage_row_reset(table, m, d, input_chars, output_chars) ==
    (table \ RowsOf(table, m, d)) \cup
        {[NewRow(table, m, d, input_chars, output_chars) EXCEPT
             !.id = IF RowsOf(table, m, d) = {} THEN @
                    ELSE (CHOOSE r \in RowsOf(table, m, d) : TRUE).id]}

\* _increment_usage on the whole table, query and commit with nothing in
\* between: the row of model m for day d gets one more request and the
\* characters and estimated tokens of the call, or is created with them
increment_usage_row(table, m, d, input_chars, output_chars) ==
    commit_usage_row(table, RowsOf(table, m, d), m, d, input_chars, output_chars)

\* characters of a prompt and of a response, as the ledger counts them
PromptChars == Len(<<"update", 0, 0, EmptySummary>>)

ResponseChars == Len(<<"summary", "update", 0, 0, EmptySummary>>)

\* the primary key of model m's row in a table with one row per model
ModelId(m) ==
    CASE m = "FLASH_PREVIEW" -> 1
      [] m = "FLASH_2_5"     -> 2
      [] m = "FLASH_2_0"     -> 3
      [] m = "FLASH_LITE"    -> 4

\* the table whose rows for day d carry the request counts u, as left by
\* that many earlier calls
TableOf(u, d) ==
    {[id |-> ModelId(m), model_name |-> m, date |-> d, request_count |-> u[m],
      total_input_characters |-> u[m] * PromptChars,
      total_output_characters |-> u[m] * ResponseChars,
      total_input_tokens |-> u[m] * (PromptChars \div 4),
      total_output_tokens |-> u[m] * (ResponseChars \div 4)] : m \in GeminiModel}

\* --------------------------------------------------------- rate governor
RECURSIVE SumTokens(_)
SumTokens(requests) ==
    IF requests = <<>> THEN 0 ELSE Head(requests)[2] + SumTokens(Tail(requests))

Max(a, b) == IF a > b THEN a ELSE b

\* line 460: the requests newer than the cutoff
InWindow(requests, t) ==
    SelectSeq(requests, LAMBDA r : r[1] > t - WindowSeconds)

\* the wait is counted from the oldest request, not from its leaving the window
calculate_adaptive_delay_no_window(prov, tokens, requests, t) ==
    LET window == InWindow(requests, t)
    IN  IF prov # "gemini"
        THEN [delay |-> 0, window |-> requests, now |-> t, tokens |-> tokens]
        ELSE IF SumTokens(window) + tokens > rate_limit /\ window # <<>>
        THEN [delay |-> Max(window[1][1] - t + BufferSeconds, 0),
              window |-> window, now |-> t, tokens |-> tokens]
        ELSE [delay |-> DefaultDelay, window |-> window, now |-> t, tokens |-> tokens]

\* calculate_adaptive_delay for a chunk of the given estimated tokens, at
\* time t: the delay, and self.recent_requests as the call leaves it
calculate_adaptive_delay(prov, tokens, requests, t) ==
    LET window == InWindow(requests, t)
    IN  IF prov # "gemini"
        THEN [delay |-> 0, window |-> requests, now |-> t, tokens |-> tokens]
        ELSE IF SumTokens(window) + tokens > rate_limit /\ window # <<>>
        THEN [delay |-> Max((window[1][1] + WindowSeconds) - t + BufferSeconds, 0),
              window |-> window, now |-> t, tokens |-> tokens]
        ELSE [delay |-> DefaultDelay, window |-> window, now |-> t, tokens |-> tokens]

\* --------------------------------------------------------- chunk planner
complexity_of(total) ==
    IF total > LargeThreshold THEN "large"
    ELSE IF total > MediumThreshold THEN "medium"
    ELSE "small"

\* the caller's argument is used whatever the size of the transcript
chunk_size_of_hint(total, arg) == arg

\* the chunk size the run uses, given the caller's chunk_size_lines argument
chunk_size_of(total, arg) ==
    IF total > LargeThreshold THEN LargeChunkSize
    ELSE IF total > MediumThreshold THEN MediumChunkSize
    ELSE arg

\* floor instead of ceiling division
num_chunks_floor(total, size) == total \div size

\* ceiling division
num_chunks_of(total, size) == (total + size - 1) \div size

\* chunk_num is 0-based, as in the loop of the code
start_line_of(cn, size) == cn * size

end_line_of(cn, size, total) == Min(start_line_of(cn, size) + size, total)

\* ------------------------------------------------------------- provider
\* a later chunk's prompt carries the transcript from its first line
Prompt_from_start(cn, cum, size, total) ==
    IF cn = 0
    THEN <<"first", start_line_of(cn, size), end_line_of(cn, size, total), EmptySummary>>
    ELSE <<"update", 0, end_line_of(cn, size, total), cum>>

\* the prompt of chunk cn: the first chunk's prompt carries only the chunk's
\* text, a later one also the cumulative summary so far
Prompt(cn, cum, size, total) ==
    IF cn = 0
    THEN <<"first", start_line_of(cn, size), end_line_of(cn, size, total), EmptySummary>>
    ELSE <<"update", start_line_of(cn, size), end_line_of(cn, size, total), cum>>

generate(prompt) == <<"summary">> \o prompt

\* the cumulative summary is returned without the marker
Truncated_bare(cum, cn) == cum

\* the value returned when the retries of chunk cn (0-based) are exhausted
Truncated(cum, cn) == <<"truncated", cum, cn + 1>>

\* ------------------------------------------------------ checkpoint store
ChunkRecord(cn, size, total, summary, cum) ==
    [chunk_number |-> cn + 1,
     chunk_start_line |-> start_line_of(cn, size),
     chunk_end_line |-> end_line_of(cn, size, total),
     chunk_summary |-> summary,
     cumulative_summary |-> cum]

\* the record is added without deleting the prior one
save_chunk_append(store, rec) == store \cup {rec}

\* delete the records of chunk number k, then add rec (one commit)
save_chunk(store, rec) ==
    {c \in store : c.chunk_number # rec.chunk_number} \cup {rec}

ChunkNumbers(store) == {c.chunk_number : c \in store}

\* the records of the store ordered by chunk_number
RECURSIVE SortedChunks(_)
SortedChunks(store) ==
    IF store = {} THEN <<>>
    ELSE LET lo == SetMin(ChunkNumbers(store))
             c == CHOOSE r \in store : r.chunk_number = lo
         IN  <<c>> \o SortedChunks(store \ {c})

\* ------------------------------------------------------------ inputs
ChunkSizeArgs == {DefaultChunkSize, MediumChunkSize, CliChunkSize}

Boundaries == {1, DefaultChunkSize, MediumThreshold, LargeThreshold}

\* a transcript of four chunks at the default chunk size (12,000 lines)
ExampleTranscript == 4 * DefaultChunkSize

TotalLinesChoices ==
    {t \in UNION {(b - Spread)..(b + Spread) : b \in Boundaries} : t >= 1}
        \cup {ExampleTranscript}

Providers == {"gemini", "ollama"}

\* today's ledger at the start.  Independent sessions share the ledger and
\* increment it after selecting, so a count can also be over its limit.
\* MixedLedgers: every model on its own is within Headroom requests of its
\* limit or up to Overshoot over it; UniformLedgers: all models alike.
MixedLedgers ==
    {[m \in GeminiModel |-> daily_limit(m) - r[m]] :
        r \in [GeminiModel -> (0 - Overshoot)..Headroom]}

UniformLedgers ==
    {[m \in GeminiModel |-> daily_limit(m) - r] : r \in (0 - Overshoot)..Headroom}

\* a transcript of two chunks at the default chunk size
ShortTranscript == DefaultChunkSize + 1

\* the pairs <<total_lines, ledger>> a behaviour starts from: every transcript
\* size with the uniform ledgers, and the short transcript with every mixed
\* ledger; with Ollama the ledger is neither read nor written
InputChoices(prov) ==
    IF prov = "gemini"
    THEN (TotalLinesChoices \X UniformLedgers) \cup ({ShortTranscript} \X MixedLedgers)
    ELSE TotalLinesChoices \X {[m \in GeminiModel |-> daily_limit(m) - Headroom]}

\* ---------------------------------------------------------------- state
VARIABLES
    provider,             \* config.summarization_provider
    total_lines,          \* line count of the session's transcript
    usage,                \* Quota Ledger: today's request_count per model
    chunks,               \* Checkpoint Store: the session's committed records
    response_summary,     \* session.response_summary (NoSummary until written)
    summary_generated,    \* session.summary_generated
    pc,                   \* position of the current run
    chunk_size_lines, num_chunks, complexity,   \* the run's plan
    chunk_num,            \* 0-based loop index of the chunk in progress
    cumulative_summary, chunk_summary, attempt, selected_model, delay,
    result,               \* outcome of the last run: returned value or raise
    runs,                 \* number of runs started
    chunks0, usage0,      \* store and ledger when the current run started
    chunks_before,        \* store when the current chunk's processing began
    first_missing,        \* resume point of the run (0: no resume logic ran)
    seed,                 \* cumulative summary the run was seeded with
    prov_calls,           \* provider calls made for the current chunk
    sleeps,               \* backoff sleeps made for the current chunk
    called, written,      \* chunk numbers called / written in the current run
    quota_hit,            \* selection found every model exhausted (this chunk)
    plan_log,             \* <<chunk size, number of chunks>> of every run
    ledger,               \* Quota Ledger: the rows of gemini_model_usage
    today,                \* date.today(), as a day number
    inc_pc,               \* per writer: position in _increment_usage
    inc_found,            \* per writer: the rows its query returned
    inc_args,             \* per writer: <<model, input_chars, output_chars>>
    performed,            \* per model: calls of _increment_usage completed
    recent_requests,      \* self.recent_requests: <<timestamp, tokens>> pairs
    now,                  \* time.time(), in seconds
    gov_pc,               \* the loop seen from the governor: "ready", "issued"
    gov_attempt,          \* attempt index of the call being made
    gov_est,              \* estimated tokens of the chunk being processed
    gov_calls,            \* provider calls issued
    gov_result,           \* last result of calculate_adaptive_delay, with its inputs
    gov_load,             \* in-window tokens, the new call included, at the last call
    session,              \* what the session id given to a run refers to
    last_error,           \* the exception the loop is sleeping on, if any
    commits,              \* the rows of the commits table
    scans,                \* calls of scan_repo made
    last_scan, prev_scan, \* the last two calls of scan_repo: path, limit, outcome
    sel_pc,               \* per concurrent run: position in its attempt
    sel_model,            \* per concurrent run: the model it selected
    limit_calls           \* models called while their count was at the limit

plan_vars == <<chunk_size_lines, num_chunks, complexity>>

loop_vars == <<chunk_num, cumulative_summary, chunk_summary, attempt, selected_model, delay>>

hist_vars == <<runs, chunks0, usage0, chunks_before, first_missing, seed, prov_calls,
               sleeps, called, written, quota_hit, plan_log>>

ledger_vars == <<ledger, today>>

writer_vars == <<inc_pc, inc_found, inc_args, performed>>

governor_vars == <<recent_requests, now, gov_pc, gov_attempt, gov_est, gov_calls,
                   gov_result, gov_load>>

git_vars == <<commits, scans, last_scan, prev_scan>>

runner_vars == <<sel_pc, sel_model, limit_calls>>

env_vars == <<session, last_error, git_vars, runner_vars>>

aux_vars == <<writer_vars, governor_vars, env_vars>>

run_vars == <<provider, total_lines, chunks, response_summary, summary_generated, pc,
              plan_vars, loop_vars, result, hist_vars>>

vars == <<provider, total_lines, usage, chunks, response_summary, summary_generated, pc,
          plan_vars, loop_vars, result, hist_vars, ledger_vars, aux_vars>>

\* independent sessions (processes) that write the Quota Ledger
Writers == {1, 2}

\* no writer is inside _increment_usage
WritersIdle ==
    /\ inc_pc = [w \in Writers |-> "idle"]
    /\ inc_found = [w \in Writers |-> {}]
    /\ inc_args = [w \in Writers |-> <<>>]
    /\ performed = [m \in GeminiModel |-> 0]

NoGovResult == [delay |-> 0, window |-> <<>>, now |-> 0, tokens |-> 0]

\* a new Summarizer: nothing requested yet (line 54)
GovernorIdle ==
    /\ recent_requests = <<>>
    /\ now = 0
    /\ gov_pc = "ready"
    /\ gov_attempt = 0
    /\ gov_est = 0
    /\ gov_calls = 0
    /\ gov_result = NoGovResult
    /\ gov_load = 0

\* lines 520-552: the session id names a session with a transcript, no
\* record at all, a record that is not a session, or a session without
\* transcript
SessionStates == {"valid", "missing", "not_session", "no_transcript"}

\* no "retry in <d>s" in the text of an exception
NoHint == -1

NoError == [rate_limit |-> FALSE, hint |-> NoHint]

NoScan == [path |-> <<>>, limit |-> 0, kind |-> "none", added |-> {}]

GitIdle ==
    /\ commits = {}
    /\ scans = 0
    /\ last_scan = NoScan
    /\ prev_scan = NoScan

RunnersIdle ==
    /\ sel_pc = [w \in Writers |-> "idle"]
    /\ sel_model = [w \in Writers |-> None]
    /\ limit_calls = {}

EnvIdle == session = "valid" /\ last_error = NoError /\ GitIdle /\ RunnersIdle

AuxIdle == WritersIdle /\ GovernorIdle /\ EnvIdle

NoResult == [kind |-> "none", value |-> EmptySummary]

Init ==
    /\ provider \in Providers
    /\ \E input \in InputChoices(provider) :
          /\ total_lines = input[1]
          /\ usage = input[2]
    /\ chunks = {}
    /\ response_summary = NoSummary
    /\ summary_generated = FALSE
    /\ pc = "idle"
    /\ chunk_size_lines = 0 /\ num_chunks = 0 /\ complexity = "small"
    /\ chunk_num = 0
    /\ cumulative_summary = EmptySummary
    /\ chunk_summary = NoSummary
    /\ attempt = 0
    /\ selected_model = None
    /\ delay = 0
    /\ result = NoResult
    /\ runs = 0
    /\ chunks0 = {} /\ usage0 = usage /\ chunks_before = {}
    /\ first_missing = 0
    /\ seed = EmptySummary
    /\ prov_calls = 0 /\ sleeps = 0
    /\ called = {} /\ written = {}
    /\ quota_hit = FALSE
    /\ plan_log = {}
    /\ today = 1
    /\ ledger = TableOf(usage, today)
    /\ WritersIdle
    /\ GovernorIdle
    /\ session \in SessionStates
    /\ last_error = NoError
    /\ GitIdle
    /\ RunnersIdle

Terminal == {"idle", "returned", "raised", "crashed"}

\* ---------------------------------------------------------------- resume
\* the seed is taken from the first stored chunk, not the one before the gap
Resume_seed_first(existing, n) ==
    LET numbers == {existing[i].chunk_number : i \in DOMAIN existing}
        missing == (1..n) \ numbers
        fm == SetMin(missing)
        before == existing
    IN  IF existing = <<>>
        THEN [done |-> FALSE, start_chunk |-> 0, first_missing |-> 0,
              cumulative_summary |-> EmptySummary]
        ELSE IF missing = {}
        THEN [done |-> TRUE, value |-> existing[Len(existing)].cumulative_summary]
        ELSE [done |-> FALSE, start_chunk |-> fm - 1, first_missing |-> fm,
              cumulative_summary |->
                  IF fm > 1 /\ before # <<>>
                  THEN before[1].cumulative_summary
                  ELSE EmptySummary]

\* the first missing chunk number is taken as the 0-based loop index
Resume_off_by_one(existing, n) ==
    LET numbers == {existing[i].chunk_number : i \in DOMAIN existing}
        missing == (1..n) \ numbers
        fm == SetMin(missing)
        before == SelectSeq(existing, LAMBDA c : c.chunk_number = fm - 1)
    IN  IF existing = <<>>
        THEN [done |-> FALSE, start_chunk |-> 0, first_missing |-> 0,
              cumulative_summary |-> EmptySummary]
        ELSE IF missing = {}
        THEN [done |-> TRUE, value |-> existing[Len(existing)].cumulative_summary]
        ELSE [done |-> FALSE, start_chunk |-> fm, first_missing |-> fm,
              cumulative_summary |->
                  IF fm > 1 /\ before # <<>>
                  THEN before[1].cumulative_summary
                  ELSE EmptySummary]

\* the run resumes at the largest missing chunk number
Resume_last_missing(existing, n) ==
    LET numbers == {existing[i].chunk_number : i \in DOMAIN existing}
        missing == (1..n) \ numbers
        fm == CHOOSE x \in missing : \A y \in missing : x >= y
        before == SelectSeq(existing, LAMBDA c : c.chunk_number = fm - 1)
    IN  IF existing = <<>>
        THEN [done |-> FALSE, start_chunk |-> 0, first_missing |-> 0,
              cumulative_summary |-> EmptySummary]
        ELSE IF missing = {}
        THEN [done |-> TRUE, value |-> existing[Len(existing)].cumulative_summary]
        ELSE [done |-> FALSE, start_chunk |-> fm - 1, first_missing |-> fm,
              cumulative_summary |->
                  IF fm > 1 /\ before # <<>>
                  THEN before[1].cumulative_summary
                  ELSE EmptySummary]

\* lines 588-615: [done |-> TRUE, value] when every chunk is stored, else
\* the 0-based start chunk and the cumulative summary to start from
Resume(existing, n) ==
    LET numbers == {existing[i].chunk_number : i \in DOMAIN existing}
        missing == (1..n) \ numbers
        fm == SetMin(missing)
        before == SelectSeq(existing, LAMBDA c : c.chunk_number = fm - 1)
    IN  IF existing = <<>>
        THEN [done |-> FALSE, start_chunk |-> 0, first_missing |-> 0,
              cumulative_summary |-> EmptySummary]
        ELSE IF missing = {}
        THEN [done |-> TRUE, value |-> existing[Len(existing)].cumulative_summary]
        ELSE [done |-> FALSE, start_chunk |-> fm - 1, first_missing |-> fm,
              cumulative_summary |->
                  IF fm > 1 /\ before # <<>>
                  THEN before[1].cumulative_summary
                  ELSE EmptySummary]

\* lines 520-552: a session id that names no record, no session or a
\* session without transcript raises ValueError before the store is read
RejectedRun ==
    /\ pc \in Terminal
    /\ runs < MaxRuns
    /\ session # "valid"
    /\ pc' = "raised"
    /\ result' = [kind |-> "raise", value |-> EmptySummary]
    /\ chunk_num' = 0
    /\ cumulative_summary' = EmptySummary
    /\ first_missing' = 0
    /\ seed' = EmptySummary
    /\ chunk_summary' = NoSummary
    /\ attempt' = 0
    /\ selected_model' = None
    /\ delay' = 0
    /\ runs' = runs + 1
    /\ chunks0' = chunks /\ usage0' = usage /\ chunks_before' = chunks
    /\ prov_calls' = 0 /\ sleeps' = 0
    /\ called' = {} /\ written' = {}
    /\ quota_hit' = FALSE
    /\ UNCHANGED <<provider, total_lines, usage, chunks, response_summary,
                   summary_generated, plan_vars, plan_log>>
    /\ UNCHANGED <<ledger_vars, aux_vars>>

\* lines 553-660, a valid session: read the stored chunks, plan, and either
\* return at once or enter the loop at the resume point
AcceptedRun(arg) ==
    /\ pc \in Terminal
    /\ runs < MaxRuns
    /\ session = "valid"
    /\ LET existing == SortedChunks(chunks)
           size == chunk_size_of(total_lines, arg)
           n == num_chunks_of(total_lines, size)
           r == Resume(existing, n)
       IN  /\ chunk_size_lines' = size
           /\ num_chunks' = n
           /\ complexity' = complexity_of(total_lines)
           /\ plan_log' = plan_log \cup {<<size, n>>}
           /\ IF r.done
              THEN /\ pc' = "returned"
                   /\ result' = [kind |-> "return", value |-> r.value]
                   /\ chunk_num' = 0
                   /\ cumulative_summary' = EmptySummary
                   /\ first_missing' = 0
                   /\ seed' = EmptySummary
              ELSE /\ pc' = IF r.start_chunk < n THEN "select" ELSE "finalize"
                   /\ result' = NoResult
                   /\ chunk_num' = r.start_chunk
                   /\ cumulative_summary' = r.cumulative_summary
                   /\ first_missing' = r.first_missing
                   /\ seed' = r.cumulative_summary
    /\ chunk_summary' = NoSummary
    /\ attempt' = 0
    /\ selected_model' = None
    /\ delay' = 0
    /\ runs' = runs + 1
    /\ chunks0' = chunks /\ usage0' = usage /\ chunks_before' = chunks
    /\ prov_calls' = 0 /\ sleeps' = 0
    /\ called' = {} /\ written' = {}
    /\ quota_hit' = FALSE
    /\ UNCHANGED <<provider, total_lines, usage, chunks, response_summary, summary_generated>>
    /\ UNCHANGED <<ledger_vars, aux_vars>>

\* the run proceeds whatever the session id refers to
StartRun_unchecked(arg) ==
    /\ pc \in Terminal
    /\ runs < MaxRuns
    /\ LET existing == SortedChunks(chunks)
           size == chunk_size_of(total_lines, arg)
           n == num_chunks_of(total_lines, size)
           r == Resume(existing, n)
       IN  /\ chunk_size_lines' = size
           /\ num_chunks' = n
           /\ complexity' = complexity_of(total_lines)
           /\ plan_log' = plan_log \cup {<<size, n>>}
           /\ IF r.done
              THEN /\ pc' = "returned"
                   /\ result' = [kind |-> "return", value |-> r.value]
                   /\ chunk_num' = 0
                   /\ cumulative_summary' = EmptySummary
                   /\ first_missing' = 0
                   /\ seed' = EmptySummary
              ELSE /\ pc' = IF r.start_chunk < n THEN "select" ELSE "finalize"
                   /\ result' = NoResult
                   /\ chunk_num' = r.start_chunk
                   /\ cumulative_summary' = r.cumulative_summary
                   /\ first_missing' = r.first_missing
                   /\ seed' = r.cumulative_summary
    /\ chunk_summary' = NoSummary
    /\ attempt' = 0
    /\ selected_model' = None
    /\ delay' = 0
    /\ runs' = runs + 1
    /\ chunks0' = chunks /\ usage0' = usage /\ chunks_before' = chunks
    /\ prov_calls' = 0 /\ sleeps' = 0
    /\ called' = {} /\ written' = {}
    /\ quota_hit' = FALSE
    /\ UNCHANGED <<provider, total_lines, usage, chunks, response_summary, summary_generated>>
    /\ UNCHANGED <<ledger_vars, aux_vars>>

\* summarize_session_chunked up to the chunk loop
StartRun(arg) ==
    \/ RejectedRun
    \/ AcceptedRun(arg)

\* ------------------------------------------------------------ chunk loop
RECURSIVE Pow2(_)
Pow2(n) == IF n = 0 THEN 1 ELSE 2 * Pow2(n - 1)

\* the wait doubles with every attempt for rate limits too
backoff_delay_doubling(is_rate_limit, att) ==
    IF is_rate_limit THEN 15 * Pow2(att) ELSE 5 * Pow2(att)

\* lines 738-751: the wait before the next attempt (no retry-after hint)
backoff_delay(is_rate_limit, att) ==
    IF is_rate_limit THEN 15 * (att + 1) ELSE 5 * Pow2(att)

\* seconds a provider asks to wait in the text of an exception
Hints == {0, 7}

\* the hinted wait grows with the attempt
retry_delay_scaled(is_rate_limit, hint, att) ==
    IF is_rate_limit /\ hint # NoHint
    THEN (hint + RetryBuffer) * (att + 1)
    ELSE backoff_delay(is_rate_limit, att)

\* lines 738-751: the wait before the next attempt; the text of a rate-limit
\* exception is searched for "retry in <d>s", hint is d or NoHint
retry_delay(is_rate_limit, hint, att) ==
    IF is_rate_limit /\ hint # NoHint
    THEN hint + RetryBuffer
    ELSE backoff_delay(is_rate_limit, att)

\* the final failure discards what the run had committed
OnException_discard(is_rate_limit, hint) ==
    /\ last_error' = IF attempt < max_retries - 1
                     THEN [rate_limit |-> is_rate_limit, hint |-> hint]
                     ELSE NoError
    /\ chunks' = IF attempt < max_retries - 1 THEN chunks ELSE chunks0
    /\ IF attempt < max_retries - 1
       THEN /\ pc' = "sleep"
            /\ delay' = retry_delay(is_rate_limit, hint, attempt)
            /\ result' = result
       ELSE /\ delay' = delay
            /\ IF cumulative_summary # EmptySummary
               THEN /\ pc' = "returned"
                    /\ result' = [kind |-> "truncated",
                                  value |-> Truncated(cumulative_summary, chunk_num)]
               ELSE /\ pc' = "raised"
                    /\ result' = [kind |-> "raise", value |-> EmptySummary]

\* one retry too many
OnException_extra(is_rate_limit, hint) ==
    /\ last_error' = IF attempt < max_retries
                     THEN [rate_limit |-> is_rate_limit, hint |-> hint]
                     ELSE NoError
    /\ chunks' = chunks
    /\ IF attempt < max_retries
       THEN /\ pc' = "sleep"
            /\ delay' = retry_delay(is_rate_limit, hint, attempt)
            /\ result' = result
       ELSE /\ delay' = delay
            /\ IF cumulative_summary # EmptySummary
               THEN /\ pc' = "returned"
                    /\ result' = [kind |-> "truncated",
                                  value |-> Truncated(cumulative_summary, chunk_num)]
               ELSE /\ pc' = "raised"
                    /\ result' = [kind |-> "raise", value |-> EmptySummary]

\* the final failure always raises
OnException_raise(is_rate_limit, hint) ==
    /\ last_error' = IF attempt < max_retries - 1
                     THEN [rate_limit |-> is_rate_limit, hint |-> hint]
                     ELSE NoError
    /\ chunks' = chunks
    /\ IF attempt < max_retries - 1
       THEN /\ pc' = "sleep"
            /\ delay' = retry_delay(is_rate_limit, hint, attempt)
            /\ result' = result
       ELSE /\ delay' = delay
            /\ pc' = "raised"
            /\ result' = [kind |-> "raise", value |-> EmptySummary]

\* the annotated summary is also stored as the failed chunk's checkpoint
OnException_checkpoint(is_rate_limit, hint) ==
    /\ last_error' = IF attempt < max_retries - 1
                     THEN [rate_limit |-> is_rate_limit, hint |-> hint]
                     ELSE NoError
    /\ chunks' = IF attempt < max_retries - 1 \/ cumulative_summary = EmptySummary
                 THEN chunks
                 ELSE save_chunk(chunks,
                          ChunkRecord(chunk_num, chunk_size_lines, total_lines,
                                      Truncated(cumulative_summary, chunk_num),
                                      Truncated(cumulative_summary, chunk_num)))
    /\ IF attempt < max_retries - 1
       THEN /\ pc' = "sleep"
            /\ delay' = retry_delay(is_rate_limit, hint, attempt)
            /\ result' = result
       ELSE /\ delay' = delay
            /\ IF cumulative_summary # EmptySummary
               THEN /\ pc' = "returned"
                    /\ result' = [kind |-> "truncated",
                                  value |-> Truncated(cumulative_summary, chunk_num)]
               ELSE /\ pc' = "raised"
                    /\ result' = [kind |-> "raise", value |-> EmptySummary]

\* lines 734-764, the except block of an attempt: sleep and retry while
\* retries are left, else return the annotated summary or raise; the
\* Checkpoint Store is not touched
OnException(is_rate_limit, hint) ==
    /\ last_error' = IF attempt < max_retries - 1
                     THEN [rate_limit |-> is_rate_limit, hint |-> hint]
                     ELSE NoError
    /\ chunks' = chunks
    /\ IF attempt < max_retries - 1
       THEN /\ pc' = "sleep"
            /\ delay' = retry_delay(is_rate_limit, hint, attempt)
            /\ result' = result
       ELSE /\ delay' = delay
            /\ IF cumulative_summary # EmptySummary
               THEN /\ pc' = "returned"
                    /\ result' = [kind |-> "truncated",
                                  value |-> Truncated(cumulative_summary, chunk_num)]
               ELSE /\ pc' = "raised"
                    /\ result' = [kind |-> "raise", value |-> EmptySummary]

\* lines 666-706: start of an attempt; with Gemini, pick a model by quota;
\* no model left raises ValueError inside the try block, whose message
\* matches none of the rate-limit patterns
SelectModel ==
    /\ pc = "select"
    /\ IF provider = "gemini"
       THEN LET m == select_best_available_model(complexity, usage)
            IN  /\ selected_model' = m
                /\ IF m = None
                   THEN /\ quota_hit' = TRUE
                        /\ OnException(FALSE, NoHint)
                   ELSE /\ pc' = "call"
                        /\ UNCHANGED <<quota_hit, delay, result, chunks, last_error>>
       ELSE /\ pc' = "call"
            /\ UNCHANGED <<selected_model, quota_hit, delay, result, chunks,
                           last_error>>
    /\ UNCHANGED <<provider, total_lines, usage, response_summary,
                   summary_generated, plan_vars, chunk_num, cumulative_summary,
                   chunk_summary, attempt, runs, chunks0, usage0, chunks_before,
                   first_missing, seed, prov_calls, sleeps, called,
                   written, plan_log>>
    /\ UNCHANGED <<ledger_vars, writer_vars, governor_vars, session,
                   git_vars, runner_vars>>

\* the successful call is not recorded in the ledger
ProviderCall_untracked(outcome, hint) ==
    /\ pc = "call"
    /\ prov_calls' = prov_calls + 1
    /\ called' = called \cup {chunk_num + 1}
    /\ IF outcome = "ok"
       THEN /\ chunk_summary' = generate(Prompt(chunk_num, cumulative_summary,
                                                chunk_size_lines, total_lines))
            /\ pc' = "save"
            /\ UNCHANGED <<delay, result, chunks, last_error>>
       ELSE /\ OnException(provider = "gemini" /\ outcome = "rate_limit", hint)
            /\ UNCHANGED chunk_summary
    /\ UNCHANGED <<provider, total_lines, usage, response_summary,
                   summary_generated, plan_vars, chunk_num, cumulative_summary,
                   attempt, selected_model, runs, chunks0, usage0, chunks_before,
                   first_missing, seed, sleeps, written, quota_hit, plan_log>>
    /\ UNCHANGED <<ledger_vars, writer_vars, governor_vars, session,
                   git_vars, runner_vars>>

\* lines 708-736: one provider call; outcome "ok", or an exception whose text
\* looks like a rate limit ("rate_limit") or not ("error") and names a wait
\* ("retry in <hint>s") or not
ProviderCall(outcome, hint) ==
    /\ pc = "call"
    /\ prov_calls' = prov_calls + 1
    /\ called' = called \cup {chunk_num + 1}
    /\ IF outcome = "ok"
       THEN /\ chunk_summary' = generate(Prompt(chunk_num, cumulative_summary,
                                                chunk_size_lines, total_lines))
            /\ pc' = IF provider = "gemini" THEN "track" ELSE "save"
            /\ UNCHANGED <<delay, result, chunks, last_error>>
       ELSE /\ OnException(provider = "gemini" /\ outcome = "rate_limit", hint)
            /\ UNCHANGED chunk_summary
    /\ UNCHANGED <<provider, total_lines, usage, response_summary,
                   summary_generated, plan_vars, chunk_num, cumulative_summary,
                   attempt, selected_model, runs, chunks0, usage0, chunks_before,
                   first_missing, seed, sleeps, written, quota_hit, plan_log>>
    /\ UNCHANGED <<ledger_vars, writer_vars, governor_vars, session,
                   git_vars, runner_vars>>

\* line 721: record the successful call in the ledger
IncrementUsage ==
    /\ pc = "track"
    /\ usage' = increment_usage(usage, selected_model)
    /\ ledger' = increment_usage_row(ledger, selected_model, today,
                      Len(Prompt(chunk_num, cumulative_summary, chunk_size_lines,
                                 total_lines)),
                      Len(chunk_summary))
    /\ today' = today
    /\ pc' = "save"
    /\ UNCHANGED <<provider, total_lines, chunks, response_summary, summary_generated,
                   plan_vars, loop_vars, result, hist_vars>>
    /\ UNCHANGED aux_vars

\* line 755: time.sleep(delay), then the next attempt; the wait and the
\* exception are not read again
Sleep ==
    /\ pc = "sleep"
    /\ attempt' = attempt + 1
    /\ sleeps' = sleeps + 1
    /\ pc' = "select"
    /\ delay' = 0
    /\ UNCHANGED <<provider, total_lines, usage, chunks, response_summary,
                   summary_generated, plan_vars, chunk_num, cumulative_summary,
                   chunk_summary, selected_model, result, runs, chunks0,
                   usage0, chunks_before, first_missing, seed, prov_calls,
                   called, written, quota_hit, plan_log>>
    /\ last_error' = NoError
    /\ UNCHANGED <<ledger_vars, writer_vars, governor_vars, session,
                   git_vars, runner_vars>>

\* the loop advances without committing the chunk's record
SaveChunk_uncommitted ==
    /\ pc = "save"
    /\ IF chunk_summary = NoSummary
       THEN /\ pc' = "raised"
            /\ result' = [kind |-> "raise", value |-> EmptySummary]
            /\ UNCHANGED <<cumulative_summary, chunks, written>>
       ELSE /\ cumulative_summary' = chunk_summary
            /\ chunks' = chunks
            /\ written' = written \cup {chunk_num + 1}
            /\ pc' = IF chunk_num < num_chunks - 1 THEN "delay" ELSE "finalize"
            /\ UNCHANGED result
    /\ UNCHANGED <<provider, total_lines, usage, response_summary, summary_generated,
                   plan_vars, chunk_num, chunk_summary, attempt, selected_model,
                   delay, runs, chunks0, usage0, chunks_before, first_missing,
                   seed, prov_calls, sleeps, called, quota_hit, plan_log>>
    /\ UNCHANGED <<ledger_vars, aux_vars>>

\* the record carries the cumulative summary from before the update
SaveChunk_stale ==
    /\ pc = "save"
    /\ IF chunk_summary = NoSummary
       THEN /\ pc' = "raised"
            /\ result' = [kind |-> "raise", value |-> EmptySummary]
            /\ UNCHANGED <<cumulative_summary, chunks, written>>
       ELSE /\ cumulative_summary' = chunk_summary
            /\ chunks' = save_chunk(chunks,
                              ChunkRecord(chunk_num, chunk_size_lines, total_lines,
                                          chunk_summary, cumulative_summary))
            /\ written' = written \cup {chunk_num + 1}
            /\ pc' = IF chunk_num < num_chunks - 1 THEN "delay" ELSE "finalize"
            /\ UNCHANGED result
    /\ UNCHANGED <<provider, total_lines, usage, response_summary, summary_generated,
                   plan_vars, chunk_num, chunk_summary, attempt, selected_model,
                   delay, runs, chunks0, usage0, chunks_before, first_missing,
                   seed, prov_calls, sleeps, called, quota_hit, plan_log>>
    /\ UNCHANGED <<ledger_vars, aux_vars>>

\* lines 766-799: after the retry loop: the response becomes the cumulative
\* summary (it replaces it), and the chunk's record is committed
SaveChunk ==
    /\ pc = "save"
    /\ IF chunk_summary = NoSummary
       THEN /\ pc' = "raised"
            /\ result' = [kind |-> "raise", value |-> EmptySummary]
            /\ UNCHANGED <<cumulative_summary, chunks, written>>
       ELSE /\ cumulative_summary' = chunk_summary
            /\ chunks' = save_chunk(chunks,
                              ChunkRecord(chunk_num, chunk_size_lines, total_lines,
                                          chunk_summary, chunk_summary))
            /\ written' = written \cup {chunk_num + 1}
            /\ pc' = IF chunk_num < num_chunks - 1 THEN "delay" ELSE "finalize"
            /\ UNCHANGED result
    /\ UNCHANGED <<provider, total_lines, usage, response_summary, summary_generated,
                   plan_vars, chunk_num, chunk_summary, attempt, selected_model,
                   delay, runs, chunks0, usage0, chunks_before, first_missing,
                   seed, prov_calls, sleeps, called, quota_hit, plan_log>>
    /\ UNCHANGED <<ledger_vars, aux_vars>>

\* lines 799-809 and 622-664: wait between chunks, then enter the next chunk
NextChunk ==
    /\ pc = "delay"
    /\ chunk_num' = chunk_num + 1
    /\ chunk_summary' = NoSummary
    /\ attempt' = 0
    /\ pc' = "select"
    /\ chunks_before' = chunks
    /\ prov_calls' = 0
    /\ sleeps' = 0
    /\ quota_hit' = FALSE
    /\ UNCHANGED <<provider, total_lines, usage, chunks, response_summary,
                   summary_generated, plan_vars, cumulative_summary, selected_model,
                   delay, result, runs, chunks0, usage0, first_missing, seed,
                   called, written, plan_log>>
    /\ UNCHANGED <<ledger_vars, aux_vars>>

\* the write-back stores the summary the run was seeded with
Finalize_seed ==
    /\ pc = "finalize"
    /\ response_summary' = seed
    /\ summary_generated' = TRUE
    /\ pc' = "returned"
    /\ result' = [kind |-> "return", value |-> cumulative_summary]
    /\ UNCHANGED <<provider, total_lines, usage, chunks, plan_vars, loop_vars, hist_vars>>
    /\ UNCHANGED <<ledger_vars, aux_vars>>

\* the write-back marks the session only when the run started at chunk 1
Finalize_fresh_only ==
    /\ pc = "finalize"
    /\ response_summary' = cumulative_summary
    /\ summary_generated' = (1 \in written)
    /\ pc' = "returned"
    /\ result' = [kind |-> "return", value |-> cumulative_summary]
    /\ UNCHANGED <<provider, total_lines, usage, chunks, plan_vars, loop_vars, hist_vars>>
    /\ UNCHANGED <<ledger_vars, aux_vars>>

\* lines 811-820: write the final summary back to the session
Finalize ==
    /\ pc = "finalize"
    /\ response_summary' = cumulative_summary
    /\ summary_generated' = TRUE
    /\ pc' = "returned"
    /\ result' = [kind |-> "return", value |-> cumulative_summary]
    /\ UNCHANGED <<provider, total_lines, usage, chunks, plan_vars, loop_vars, hist_vars>>
    /\ UNCHANGED <<ledger_vars, aux_vars>>

\* the process is interrupted (signal, crash): the run's local state is
\* gone, what was committed stays
Crash ==
    /\ pc \notin Terminal
    /\ pc' = "crashed"
    /\ result' = NoResult
    /\ chunk_num' = 0
    /\ cumulative_summary' = EmptySummary
    /\ chunk_summary' = NoSummary
    /\ attempt' = 0
    /\ selected_model' = None
    /\ delay' = 0
    /\ chunks0' = chunks /\ usage0' = usage /\ chunks_before' = chunks
    /\ first_missing' = 0
    /\ seed' = EmptySummary
    /\ prov_calls' = 0 /\ sleeps' = 0
    /\ called' = {} /\ written' = {}
    /\ quota_hit' = FALSE
    /\ UNCHANGED <<provider, total_lines, usage, chunks, response_summary,
                   summary_generated, plan_vars, runs, plan_log>>
    /\ last_error' = NoError
    /\ UNCHANGED <<ledger_vars, writer_vars, governor_vars, session,
                   git_vars, runner_vars>>

Next ==
    \/ \E arg \in ChunkSizeArgs : StartRun(arg)
    \/ SelectModel
    \/ ProviderCall("ok", NoHint)
    \/ \E outcome \in {"rate_limit", "error"}, hint \in Hints \cup {NoHint} :
          ProviderCall(outcome, hint)
    \/ IncrementUsage
    \/ Sleep
    \/ SaveChunk
    \/ NextChunk
    \/ Finalize
    \/ Crash

Spec == Init /\ [][Next]_vars

\* the steps of the run that are straight-line code of the process are taken
\* once enabled; a provider call returns when the provider answers, and
\* lines 715 and 723 pass no timeout to the client
Progress ==
    /\ WF_vars(SelectModel)
    /\ WF_vars(IncrementUsage)
    /\ WF_vars(Sleep)
    /\ WF_vars(SaveChunk)
    /\ WF_vars(NextChunk)
    /\ WF_vars(Finalize)

SpecProgress == Init /\ [][Next]_vars /\ Progress

\* ------------------------------------------------- the save step alone
\* lines 777-793 applied to any chunk of a plan, whatever the store holds:
\* a 10,000-line transcript in 3,000-line chunks, each chunk summarized from
\* one of several previous summaries
Seeds == {EmptySummary, <<"a">>, <<"b">>}

StoreInit ==
    /\ provider = "ollama"
    /\ total_lines = MediumThreshold
    /\ usage = [m \in GeminiModel |-> 0]
    /\ chunks = {}
    /\ response_summary = NoSummary
    /\ summary_generated = FALSE
    /\ pc = "save"
    /\ chunk_size_lines = DefaultChunkSize
    /\ num_chunks = num_chunks_of(MediumThreshold, DefaultChunkSize)
    /\ complexity = "small"
    /\ chunk_num = 0
    /\ cumulative_summary = EmptySummary
    /\ chunk_summary = NoSummary
    /\ attempt = 0
    /\ selected_model = None
    /\ delay = 0
    /\ result = NoResult
    /\ runs = 1
    /\ chunks0 = {} /\ usage0 = usage /\ chunks_before = {}
    /\ first_missing = 0
    /\ seed = EmptySummary
    /\ prov_calls = 0 /\ sleeps = 0
    /\ called = {} /\ written = {}
    /\ quota_hit = FALSE
    /\ plan_log = {<<DefaultChunkSize, num_chunks_of(MediumThreshold, DefaultChunkSize)>>}
    /\ today = 1
    /\ ledger = {}
    /\ AuxIdle

\* the response to chunk cn's prompt is committed as chunk cn's record
StoreSave(cn, cum) ==
    LET response == generate(Prompt(cn, cum, chunk_size_lines, total_lines))
    IN  /\ chunks_before' = chunks
        /\ chunks' = save_chunk(chunks,
                          ChunkRecord(cn, chunk_size_lines, total_lines,
                                      response, response))
        /\ UNCHANGED <<provider, total_lines, usage, response_summary,
                       summary_generated, pc, plan_vars, loop_vars, result,
                       runs, chunks0, usage0, first_missing, seed, prov_calls,
                       sleeps, called, written, quota_hit, plan_log>>
        /\ UNCHANGED <<ledger_vars, aux_vars>>

StoreNext == \E cn \in 0..(num_chunks - 1), cum \in Seeds : StoreSave(cn, cum)

SpecStore == StoreInit /\ [][StoreNext]_vars

\* ------------------------------------------------ the Quota Ledger alone
\* _increment_usage called for any model with any character counts, over
\* several days, on a table that starts empty
InputChars == {3, 4}

OutputChars == {0, 5}

RECURSIVE SumRequests(_)
SumRequests(table) ==
    IF table = {} THEN 0
    ELSE LET r == CHOOSE x \in table : TRUE
         IN  r.request_count + SumRequests(table \ {r})

LedgerInit ==
    /\ provider = "gemini"
    /\ total_lines = 1
    /\ usage = [m \in GeminiModel |-> 0]
    /\ chunks = {}
    /\ response_summary = NoSummary
    /\ summary_generated = FALSE
    /\ pc = "idle"
    /\ chunk_size_lines = 0 /\ num_chunks = 0 /\ complexity = "small"
    /\ chunk_num = 0
    /\ cumulative_summary = EmptySummary
    /\ chunk_summary = NoSummary
    /\ attempt = 0
    /\ selected_model = None
    /\ delay = 0
    /\ result = NoResult
    /\ runs = 0
    /\ chunks0 = {} /\ usage0 = usage /\ chunks_before = {}
    /\ first_missing = 0
    /\ seed = EmptySummary
    /\ prov_calls = 0 /\ sleeps = 0
    /\ called = {} /\ written = {}
    /\ quota_hit = FALSE
    /\ plan_log = {}
    /\ today = 1
    /\ ledger = {}
    /\ AuxIdle

\* line 721 seen from the ledger: one successful call is recorded
LedgerIncrement(m, input_chars, output_chars) ==
    /\ SumRequests(ledger) < MaxRequests
    /\ ledger' = increment_usage_row(ledger, m, today, input_chars, output_chars)
    /\ usage' = increment_usage(usage, m)
    /\ today' = today
    /\ UNCHANGED <<provider, total_lines, chunks, response_summary,
                   summary_generated, pc, plan_vars, loop_vars, result, hist_vars>>
    /\ UNCHANGED aux_vars

\* the date changes: no row of the new day exists yet
NewDay ==
    /\ today < MaxDay
    /\ today' = today + 1
    /\ usage' = [m \in GeminiModel |-> 0]
    /\ ledger' = ledger
    /\ UNCHANGED <<provider, total_lines, chunks, response_summary,
                   summary_generated, pc, plan_vars, loop_vars, result, hist_vars>>
    /\ UNCHANGED aux_vars

LedgerNext ==
    \/ \E m \in GeminiModel, input_chars \in InputChars, output_chars \in OutputChars :
          LedgerIncrement(m, input_chars, output_chars)
    \/ NewDay

SpecLedger == LedgerInit /\ [][LedgerNext]_vars

\* --------------------------------------- concurrent writers of the ledger
\* no run of summarize_session_chunked is modelled: the run's variables rest
RunIdle ==
    /\ provider = "gemini"
    /\ total_lines = 1
    /\ chunks = {}
    /\ response_summary = NoSummary
    /\ summary_generated = FALSE
    /\ pc = "idle"
    /\ chunk_size_lines = 0 /\ num_chunks = 0 /\ complexity = "small"
    /\ chunk_num = 0
    /\ cumulative_summary = EmptySummary
    /\ chunk_summary = NoSummary
    /\ attempt = 0
    /\ selected_model = None
    /\ delay = 0
    /\ result = NoResult
    /\ runs = 0
    /\ chunks0 = {} /\ chunks_before = {}
    /\ first_missing = 0
    /\ seed = EmptySummary
    /\ prov_calls = 0 /\ sleeps = 0
    /\ called = {} /\ written = {}
    /\ quota_hit = FALSE
    /\ plan_log = {}

\* _get_usage_for_date for every model: the request_count of the row the
\* query returns first, 0 without a row
UsageOf(table, d) ==
    [m \in GeminiModel |->
        IF RowsOf(table, m, d) = {} THEN 0
        ELSE (CHOOSE r \in RowsOf(table, m, d) :
                  \A q \in RowsOf(table, m, d) : r.id <= q.id).request_count]

\* independent sessions, each with its own database session, record calls
\* on a table that starts empty
WritersInit ==
    /\ RunIdle
    /\ today = 1
    /\ ledger = {}
    /\ usage = UsageOf(ledger, today)
    /\ usage0 = usage
    /\ AuxIdle

\* lines 159-170: writer w enters _increment_usage and queries today's row
QueryUsage(w, m, input_chars, output_chars) ==
    /\ inc_pc[w] = "idle"
    /\ SumRequests(ledger) + Cardinality({v \in Writers : inc_pc[v] = "found"})
          < MaxRequests
    /\ inc_pc' = [inc_pc EXCEPT ![w] = "found"]
    /\ inc_found' = [inc_found EXCEPT ![w] = RowsOf(ledger, m, today)]
    /\ inc_args' = [inc_args EXCEPT ![w] = <<m, input_chars, output_chars>>]
    /\ UNCHANGED <<performed, usage, ledger_vars, run_vars, governor_vars, env_vars>>

\* lines 172-191: writer w writes the row it read, or a new row, and commits
CommitUsage(w) ==
    /\ inc_pc[w] = "found"
    /\ ledger' = commit_usage_row(ledger, inc_found[w], inc_args[w][1], today,
                                  inc_args[w][2], inc_args[w][3])
    /\ usage' = UsageOf(ledger', today)
    /\ performed' = [performed EXCEPT ![inc_args[w][1]] = @ + 1]
    /\ inc_pc' = [inc_pc EXCEPT ![w] = "idle"]
    /\ inc_found' = [inc_found EXCEPT ![w] = {}]
    /\ inc_args' = [inc_args EXCEPT ![w] = <<>>]
    /\ UNCHANGED <<today, run_vars, governor_vars, env_vars>>

WritersNext ==
    \/ \E w \in Writers, m \in GeminiModel, input_chars \in InputChars,
          output_chars \in OutputChars : QueryUsage(w, m, input_chars, output_chars)
    \/ \E w \in Writers : CommitUsage(w)

SpecWriters == WritersInit /\ [][WritersNext]_vars

\* ------------------------------------------- the loop's timing and tokens
\* the chunk loop seen from the Rate Governor: when calls are issued and
\* with what estimated tokens.  A chunk's estimate is a tenth of a ninth of
\* the budget, just under half of it, or more than all of it.
Estimates == {rate_limit \div 90, (rate_limit \div 2) - 5000, rate_limit + 1}

\* seconds a provider call takes
Durations == {1, 20}

GovernorInit ==
    /\ RunIdle
    /\ today = 1
    /\ ledger = {}
    /\ usage = UsageOf(ledger, today)
    /\ usage0 = usage
    /\ WritersIdle
    /\ EnvIdle
    /\ recent_requests = <<>>
    /\ now = 0
    /\ gov_pc = "ready"
    /\ gov_attempt = 0
    /\ gov_est \in Estimates
    /\ gov_calls = 0
    /\ gov_result = NoGovResult
    /\ gov_load = 0

\* lines 708-716: the request is tracked and the provider is called
IssueCall ==
    /\ gov_pc = "ready"
    /\ gov_calls < MaxCalls
    /\ gov_load' = SumTokens(InWindow(recent_requests, now)) + gov_est
    /\ recent_requests' = IF provider = "gemini"
                          THEN Append(recent_requests, <<now, gov_est>>)
                          ELSE recent_requests
    /\ gov_calls' = gov_calls + 1
    /\ gov_pc' = "issued"
    /\ UNCHANGED <<now, gov_attempt, gov_est, gov_result>>
    /\ UNCHANGED <<usage, ledger_vars, run_vars, writer_vars, env_vars>>

\* lines 734-755: the call fails after some seconds and the loop sleeps
\* before the next attempt
CallFails(is_rate_limit, hint, duration) ==
    /\ gov_pc = "issued"
    /\ gov_attempt < max_retries - 1
    /\ now' = now + duration
                + retry_delay(provider = "gemini" /\ is_rate_limit, hint, gov_attempt)
    /\ gov_attempt' = gov_attempt + 1
    /\ gov_pc' = "ready"
    /\ UNCHANGED <<recent_requests, gov_est, gov_calls, gov_result, gov_load>>
    /\ UNCHANGED <<usage, ledger_vars, run_vars, writer_vars, env_vars>>

\* lines 799-809: the call succeeds after some seconds; the governor is
\* asked for the delay before the next chunk, whose estimate is next_est,
\* and the loop sleeps that long
CallSucceeds(duration, next_est) ==
    /\ gov_pc = "issued"
    /\ LET r == calculate_adaptive_delay(provider, next_est, recent_requests,
                                         now + duration)
       IN  /\ gov_result' = r
           /\ recent_requests' = r.window
           /\ now' = now + duration + r.delay
    /\ gov_est' = next_est
    /\ gov_attempt' = 0
    /\ gov_pc' = "ready"
    /\ UNCHANGED <<gov_calls, gov_load>>
    /\ UNCHANGED <<usage, ledger_vars, run_vars, writer_vars, env_vars>>

GovernorNext ==
    \/ IssueCall
    \/ \E is_rate_limit \in BOOLEAN, hint \in Hints \cup {NoHint},
          duration \in Durations :
          CallFails(is_rate_limit, hint, duration)
    \/ \E duration \in Durations, next_est \in Estimates :
          CallSucceeds(duration, next_est)

SpecGovernor == GovernorInit /\ [][GovernorNext]_vars

\* -------------------------------------------- runs that share the ledger
\* independent sessions are summarized at the same time, each by a process
\* of its own; what they share is the Quota Ledger.  Every model starts the
\* day Headroom requests below its limit.
SessionsInit ==
    /\ RunIdle
    /\ today = 1
    /\ usage = [m \in GeminiModel |-> daily_limit(m) - Headroom]
    /\ ledger = TableOf(usage, today)
    /\ usage0 = usage
    /\ AuxIdle

\* lines 686-706: run w starts an attempt and selects a model by the
\* ledger as it is now
SessionSelect(w, cplx) ==
    /\ sel_pc[w] = "idle"
    /\ SumRequests(ledger) - SumRequests(TableOf(usage0, today))
          + Cardinality({v \in Writers : sel_pc[v] # "idle"}) < MaxRequests
    /\ select_best_available_model(cplx, UsageOf(ledger, today)) # None
    /\ sel_model' = [sel_model EXCEPT
                        ![w] = select_best_available_model(cplx, UsageOf(ledger, today))]
    /\ sel_pc' = [sel_pc EXCEPT ![w] = "selected"]
    /\ UNCHANGED <<limit_calls, usage, ledger_vars, run_vars, writer_vars,
                   governor_vars, session, last_error, git_vars>>

\* lines 708-716: run w calls the provider with the model it selected; a
\* failed call is followed by a new attempt
SessionCall(w, ok) ==
    /\ sel_pc[w] = "selected"
    /\ limit_calls' =
          IF UsageOf(ledger, today)[sel_model[w]] >= daily_limit(sel_model[w])
          THEN limit_calls \cup {sel_model[w]}
          ELSE limit_calls
    /\ sel_pc' = [sel_pc EXCEPT ![w] = IF ok THEN "called" ELSE "idle"]
    /\ sel_model' = [sel_model EXCEPT ![w] = IF ok THEN @ ELSE None]
    /\ UNCHANGED <<usage, ledger_vars, run_vars, writer_vars, governor_vars,
                   session, last_error, git_vars>>

\* lines 721 and 159-170: run w enters _increment_usage and queries the row
SessionQuery(w, input_chars, output_chars) ==
    /\ sel_pc[w] = "called"
    /\ sel_pc' = [sel_pc EXCEPT ![w] = "found"]
    /\ inc_pc' = [inc_pc EXCEPT ![w] = "found"]
    /\ inc_found' = [inc_found EXCEPT ![w] = RowsOf(ledger, sel_model[w], today)]
    /\ inc_args' = [inc_args EXCEPT ![w] = <<sel_model[w], input_chars, output_chars>>]
    /\ UNCHANGED <<sel_model, limit_calls, performed, usage, ledger_vars, run_vars,
                   governor_vars, session, last_error, git_vars>>

\* lines 172-191: run w writes the row it read, or a new row, and commits
SessionCommit(w) ==
    /\ sel_pc[w] = "found"
    /\ ledger' = commit_usage_row(ledger, inc_found[w], inc_args[w][1], today,
                                  inc_args[w][2], inc_args[w][3])
    /\ usage' = UsageOf(ledger', today)
    /\ performed' = [performed EXCEPT ![inc_args[w][1]] = @ + 1]
    /\ inc_pc' = [inc_pc EXCEPT ![w] = "idle"]
    /\ inc_found' = [inc_found EXCEPT ![w] = {}]
    /\ inc_args' = [inc_args EXCEPT ![w] = <<>>]
    /\ sel_pc' = [sel_pc EXCEPT ![w] = "idle"]
    /\ sel_model' = [sel_model EXCEPT ![w] = None]
    /\ UNCHANGED <<limit_calls, today, run_vars, governor_vars, session, last_error,
                   git_vars>>

SessionsNext ==
    \/ \E w \in Writers, cplx \in {"small", "large"} : SessionSelect(w, cplx)
    \/ \E w \in Writers, ok \in BOOLEAN : SessionCall(w, ok)
    \/ \E w \in Writers, input_chars \in InputChars, output_chars \in OutputChars :
          SessionQuery(w, input_chars, output_chars)
    \/ \E w \in Writers : SessionCommit(w)

SpecSessions == SessionsInit /\ [][SessionsNext]_vars

\* ----------------------------------------------------------- git monitor
\* a path is its sequence of components, "/" first when it is absolute
Cwd == <<"/", "home">>

\* where the one repository is
RepoLocation == <<"/", "home", "repo">>

\* os.path.normpath on the components: "." is dropped, ".." removes the
\* component before it
RECURSIVE Normalize(_, _)
Normalize(parts, acc) ==
    IF parts = <<>> THEN acc
    ELSE IF parts[1] = "." THEN Normalize(Tail(parts), acc)
    ELSE IF parts[1] = ".."
    THEN Normalize(Tail(parts),
                   IF Len(acc) > 1 THEN SubSeq(acc, 1, Len(acc) - 1) ELSE acc)
    ELSE Normalize(Tail(parts), Append(acc, parts[1]))

\* os.path.abspath: a relative path is joined to the working directory,
\* then the path is normalised
abspath(path) ==
    IF path[1] = "/" THEN Normalize(Tail(path), <<"/">>) ELSE Normalize(path, Cwd)

\* the paths given to scan_repo: the repository by its absolute path, by a
\* relative path, by a relative path through "..", and a path that does
\* not exist
RepoPaths == {RepoLocation, <<"repo">>, <<"..", "home", "repo">>, <<"gone">>}

\* the commits of the repository, oldest first; it does not change
NumCommits == 2

Limits == {1, NumCommits}

\* line 46: the shas of the newest commits, at most limit of them
iter_commits(limit) == {sha \in 1..NumCommits : sha > NumCommits - limit}

\* lines 36-82: a path that does not exist or is no repository raises; else
\* every scanned commit without a row of its sha and the path as given gets
\* a row with the absolute path; the shas added are returned
scan_repo(table, path, limit) ==
    LET new == {sha \in iter_commits(limit) :
                   ~ \E r \in table : r.sha = sha /\ r.repo_path = path}
    IN  IF abspath(path) # RepoLocation
        THEN [kind |-> "raise", added |-> {}, table |-> table]
        ELSE [kind |-> "return", added |-> new,
              table |-> table \cup
                  {[id |-> Cardinality(table) + Cardinality({x \in new : x >= sha}),
                    sha |-> sha, repo_path |-> abspath(path)] : sha \in new}]

ScanInit ==
    /\ RunIdle
    /\ today = 1
    /\ ledger = {}
    /\ usage = UsageOf(ledger, today)
    /\ usage0 = usage
    /\ AuxIdle

ScanRepo(path, limit) ==
    /\ scans < MaxScans
    /\ LET r == scan_repo(commits, path, limit)
       IN  /\ commits' = r.table
           /\ last_scan' = [path |-> path, limit |-> limit, kind |-> r.kind,
                            added |-> r.added]
    /\ prev_scan' = last_scan
    /\ scans' = scans + 1
    /\ UNCHANGED <<usage, ledger_vars, run_vars, writer_vars, governor_vars,
                   session, last_error, runner_vars>>

ScanNext == \E path \in RepoPaths, limit \in Limits : ScanRepo(path, limit)

SpecScan == ScanInit /\ [][ScanNext]_vars

\* ================================================================ claims
CumulativeOf(store, k) ==
    (CHOOSE c \in store : c.chunk_number = k).cumulative_summary

\* a run has planned: its plan variables are set
Planned == runs > 0 /\ session = "valid"

\* the run ended in failure in the chunk loop: it raised, or returned the
\* annotated summary
Failed ==
    /\ session = "valid"
    /\ pc = "raised" \/ (pc = "returned" /\ result.kind = "truncated")

\* chunk numbers of the current plan that had no checkpoint at the run's start
Missing0 == (1..num_chunks) \ ChunkNumbers(chunks0)

\* C1: a run that finds checkpoints for every chunk 1..N of its plan makes no
\* provider call, leaves the Checkpoint Store and the Quota Ledger as they
\* were and returns the cumulative summary stored for chunk N.
C1_IdempotentResume ==
    (pc = "returned" /\ chunks0 # {} /\ Missing0 = {}) =>
        /\ called = {}
        /\ chunks = chunks0
        /\ usage = usage0
        /\ result = [kind |-> "return", value |-> CumulativeOf(chunks0, num_chunks)]

\* C2: a run that finds some checkpoints but not all of 1..N starts at the
\* smallest missing chunk number m, is seeded with checkpoint m-1's cumulative
\* summary (empty when m = 1), and neither calls the provider nor writes a
\* checkpoint for a chunk below m.
C2_GapResume ==
    (Planned /\ pc # "crashed" /\ chunks0 # {} /\ Missing0 # {}) =>
        LET m == SetMin(Missing0)
        IN  /\ first_missing = m
            /\ chunk_num + 1 >= m
            /\ seed = IF m = 1 THEN EmptySummary ELSE CumulativeOf(chunks0, m - 1)
            /\ \A k \in called \cup written : k >= m
            /\ called # {} => m \in called
            /\ {c \in chunks : c.chunk_number < m} = {c \in chunks0 : c.chunk_number < m}

\* a resumed run, seeded from a checkpoint beyond the first, has called the
\* provider for its first chunk
C2_Witness ==
    /\ pc = "save" /\ first_missing > 2 /\ chunk_num + 1 = first_missing
    /\ seed = CumulativeOf(chunks0, first_missing - 1)

\* C6: the model selector never returns a model whose count for today is at
\* or above its daily limit, and returns no model exactly when every catalog
\* model is at or above its limit.
C6_QuotaEnforced ==
    /\ pc = "select" =>
          \A cplx \in {"small", "medium", "large"} :
              LET m == select_best_available_model(cplx, usage)
              IN  /\ m # None => (m \in GeminiModel /\ usage[m] < daily_limit(m))
                  /\ m = None <=> \A mm \in GeminiModel : usage[mm] >= daily_limit(mm)
    /\ (pc = "call" /\ provider = "gemini") =>
          usage[selected_model] < daily_limit(selected_model)
    /\ quota_hit =>
          \A mm \in GeminiModel : usage[mm] >= daily_limit(mm)

\* a model was selected while the preferred one was over and another at its limit
C6_Witness ==
    /\ pc = "call" /\ provider = "gemini"
    /\ \E a, b \in GeminiModel :
          /\ usage[a] > daily_limit(a)
          /\ usage[b] = daily_limit(b)
          /\ a = preferred_order(complexity)[1]

\* C8: the ranges of chunks 1..N of a plan are in increasing order and tile
\* [0, total) without gap or overlap, the last one ends at total, and
\* N = ceil(total / size).
C8_Tiling ==
    Planned =>
        LET N == num_chunks
            S(cn) == start_line_of(cn, chunk_size_lines)
            E(cn) == end_line_of(cn, chunk_size_lines, total_lines)
        IN  /\ N >= 1
            /\ N * chunk_size_lines >= total_lines
            /\ (N - 1) * chunk_size_lines < total_lines
            /\ S(0) = 0
            /\ E(N - 1) = total_lines
            /\ \A cn \in 0..(N - 1) : S(cn) < E(cn)
            /\ \A cn \in 0..(N - 2) : E(cn) = S(cn + 1)

\* the last chunk of a plan of several chunks is shorter than the others
C8_Witness ==
    /\ pc = "save" /\ num_chunks > 1 /\ chunk_num = num_chunks - 1
    /\ end_line_of(chunk_num, chunk_size_lines, total_lines)
          - start_line_of(chunk_num, chunk_size_lines) < chunk_size_lines

\* C10: the chunk size of a run depends on the total line count alone:
\* 3,000 up to 10,000 lines, 5,000 up to 50,000 lines, 10,000 above.
C10_SizeFromTotalAlone ==
    Planned =>
        chunk_size_lines = IF total_lines <= MediumThreshold THEN DefaultChunkSize
                           ELSE IF total_lines <= LargeThreshold THEN MediumChunkSize
                           ELSE LargeChunkSize

\* what one uninterrupted run of the plan (size, total) on an empty store
\* produces: the cumulative summary after chunk k, and the checkpoints
RECURSIVE RefSummary(_, _, _)
RefSummary(k, size, total) ==
    IF k = 0 THEN EmptySummary
    ELSE generate(Prompt(k - 1, RefSummary(k - 1, size, total), size, total))

RefChunks(size, total) ==
    {ChunkRecord(k - 1, size, total, RefSummary(k, size, total), RefSummary(k, size, total)) :
        k \in 1..num_chunks_of(total, size)}

\* C3: runs interrupted at arbitrary points, followed by a run that completes,
\* leave the checkpoints 1..N and the final session summary of one
\* uninterrupted run (stated for behaviours whose runs all had the same plan).
C3_CrashSafe ==
    (pc = "returned" /\ result.kind = "return" /\ Cardinality(plan_log) = 1) =>
        /\ chunks = RefChunks(chunk_size_lines, total_lines)
        /\ response_summary = RefSummary(num_chunks, chunk_size_lines, total_lines)
        /\ summary_generated

\* C4: when a run fails on chunk k, the checkpoints committed before chunk
\* k's processing began are all still present and unchanged, and no record
\* for chunk k was written.
C4_FailurePreserves ==
    Failed =>
        /\ chunks = chunks_before
        /\ chunk_num + 1 \notin written
        /\ chunks0 \subseteq chunks
        /\ \A c \in chunks : c.chunk_summary # NoSummary /\ c.cumulative_summary # NoSummary

\* a run failed on a chunk after it had committed an earlier one
C4_Witness == Failed /\ written # {} /\ chunks # chunks0

\* C5: the provider is attempted at most max_retries times for a chunk,
\* whatever the errors; when every attempt fails the chunk fails after
\* exactly max_retries attempts and no more than max_retries sleeps.
C5_RetryBound ==
    /\ prov_calls <= max_retries
    /\ attempt + 1 <= max_retries
    /\ sleeps <= max_retries
    /\ Failed => /\ attempt + 1 = max_retries
                 /\ ~quota_hit => prov_calls = max_retries

\* a chunk failed after max_retries provider calls
C5_Witness == Failed /\ prov_calls = max_retries /\ sleeps = max_retries - 1

\* C7: when every model is at its cap as a chunk is attempted, the run fails
\* at once: no backoff sleep, no further selection or attempt for the chunk.
C7_QuotaNotRetried == quota_hit => Failed

\* C9: every run of the session computes the same number of chunks, and every
\* stored checkpoint carries the boundaries that every run's plan gives its
\* chunk number.
C9_SameBoundaries ==
    /\ \A p, q \in plan_log : p[2] = q[2]
    /\ \A c \in chunks : \A p \in plan_log :
          /\ c.chunk_start_line = start_line_of(c.chunk_number - 1, p[1])
          /\ c.chunk_end_line = end_line_of(c.chunk_number - 1, p[1], total_lines)

\* the run returned normally
Completed == pc = "returned" /\ result.kind = "return"

\* the line ranges of the stored checkpoints
RangesOf(store) == {<<c.chunk_start_line, c.chunk_end_line>> : c \in store}

\* the run's plan is the one a 3,000-line chunk_size_lines argument gives
\* for the 12,000-line transcript
ExamplePlanned ==
    /\ Planned /\ pc # "crashed"
    /\ total_lines = ExampleTranscript
    /\ chunk_size_lines = chunk_size_of(total_lines, DefaultChunkSize)

C12_FinalIsLastCheckpoint ==
    /\ (Completed /\ num_chunks \in written) =>
          /\ summary_generated
          /\ response_summary = CumulativeOf(chunks, num_chunks)
          /\ result.value = response_summary
    /\ summary_generated =>
          \E c \in chunks :
              /\ c.cumulative_summary = response_summary
              /\ c.chunk_end_line = total_lines
              /\ \E p \in plan_log : c.chunk_number = p[2]

\* a run resumed after the first chunks were stored, processed the final chunk
\* and marked the session
C12_Witness ==
    /\ Completed /\ summary_generated
    /\ num_chunks > 1 /\ first_missing > 1 /\ num_chunks \in written
    /\ response_summary = CumulativeOf(chunks, num_chunks)

\* C13: whenever the session is marked summarized, the chunk numbers of its
\* checkpoints are exactly 1..N, for N the number of chunks of the plan (of
\* the plan of at least one of the runs made so far).
C13_ContiguousWhenSummarized ==
    summary_generated =>
        \E p \in plan_log : ChunkNumbers(chunks) = 1..p[2]

\* C14: once the session is marked summarized, no step of any run unmarks it
\* or empties its final summary.
C14_SummarizedIsOneWay ==
    [][summary_generated =>
          /\ summary_generated'
          /\ response_summary' # NoSummary
          /\ response_summary' # EmptySummary]_vars

\* a later run of an already summarized session processed a chunk and failed
C14_Witness == summary_generated /\ Failed /\ called # {} /\ runs > 1

\* C15: the Checkpoint Store holds at most one record per chunk number, also
\* after a chunk that already has a record is saved again, and a save removes
\* no chunk number from the store.
C15_OneRecordPerChunk ==
    /\ \A c, d \in chunks : c.chunk_number = d.chunk_number => c = d
    /\ ChunkNumbers(chunks_before) \subseteq ChunkNumbers(chunks)

\* the last save replaced the record of a chunk by a different one
C15_Witness ==
    \E c \in chunks_before, d \in chunks :
        /\ c.chunk_number = d.chunk_number
        /\ c # d
        /\ c \notin chunks

\* C16: the response stored as checkpoint k was generated from chunk k's own
\* line range and, for k > 1, the cumulative summary of checkpoint k-1
\* (nothing for k = 1), and it is checkpoint k's cumulative summary as it was
\* returned; every provider call of a run, a retry or the first call after a
\* resume included, is given the cumulative summary of the checkpoint before.
C16_InputsAreChunkAndPrevious ==
    /\ \A c \in chunks :
          LET k == c.chunk_number
              previous == IF k = 1 THEN EmptySummary ELSE CumulativeOf(chunks, k - 1)
          IN  /\ k > 1 => (k - 1) \in ChunkNumbers(chunks)
              /\ c.chunk_summary =
                     <<"summary", IF k = 1 THEN "first" ELSE "update",
                       c.chunk_start_line, c.chunk_end_line, previous>>
              /\ c.cumulative_summary = c.chunk_summary
    /\ pc = "call" =>
          cumulative_summary = IF chunk_num = 0 THEN EmptySummary
                               ELSE CumulativeOf(chunks, chunk_num)

\* a resumed run committed its first chunk, past chunk 1, after a retry
C16_Witness ==
    /\ pc \in {"delay", "finalize"} /\ attempt > 0
    /\ first_missing > 1 /\ chunk_num + 1 = first_missing
    /\ first_missing \in written

\* the run ended on a chunk whose last attempt failed
Exhausted ==
    /\ Planned /\ pc \in {"returned", "raised"}
    /\ attempt = max_retries - 1
    /\ (chunk_num + 1) \notin written

\* C17 as stated: when the retries of a chunk are exhausted the call raises,
\* it does not return.
C17_FailurePropagates == Exhausted => pc = "raised"

\* C17: when the retries of a chunk are exhausted the call raises exactly
\* when no cumulative summary has been reached; otherwise it returns, and
\* what it returns carries the marker.
C17_RaisesOnlyWhenEmpty ==
    Exhausted =>
        /\ pc = "raised" <=> cumulative_summary = EmptySummary
        /\ pc = "raised" <=> result.kind = "raise"
        /\ pc = "returned" => result.value[1] = "truncated"

\* the first chunk of a fresh run failed after max_retries provider calls and
\* the call raised
C17_Witness ==
    /\ Exhausted /\ pc = "raised"
    /\ chunk_num = 0 /\ prov_calls = max_retries /\ chunks = {}

\* C18 as stated: when the retries of a chunk are exhausted, the first chunk
\* included, the call returns the cumulative summary reached so far followed
\* by the marker.
C18_AlwaysPartial ==
    Exhausted =>
        /\ pc = "returned"
        /\ result.value = <<"truncated", cumulative_summary, chunk_num + 1>>

\* C18: when the retries of a chunk are exhausted and a cumulative summary
\* has been reached, the call returns that summary, the one of the last
\* checkpoint, followed by the marker; with none reached it hands back no
\* result; it never returns an empty one.
C18_PartialWhenReached ==
    Exhausted =>
        /\ cumulative_summary # EmptySummary =>
              /\ pc = "returned"
              /\ result.value = <<"truncated", cumulative_summary, chunk_num + 1>>
              /\ cumulative_summary = CumulativeOf(chunks, chunk_num)
        /\ cumulative_summary = EmptySummary => pc = "raised"
        /\ pc = "returned" => result.value # EmptySummary

\* the first chunk of a resumed run failed and the summary of the checkpoint
\* before it was returned with the marker
C18_Witness ==
    /\ Exhausted /\ pc = "returned"
    /\ first_missing > 1 /\ written = {} /\ called = {first_missing}
    /\ result.value = <<"truncated", seed, first_missing>>

\* the order of preference the claim gives for a complexity value
ClaimedOrder(cplx) ==
    IF cplx = "large"
    THEN <<"FLASH_2_0", "FLASH_LITE", "FLASH_PREVIEW", "FLASH_2_5">>
    ELSE <<"FLASH_PREVIEW", "FLASH_2_5", "FLASH_2_0", "FLASH_LITE">>

\* m is the first model of the claimed order with requests left in ledger u
FirstWithQuota(m, cplx, u) ==
    LET order == ClaimedOrder(cplx)
    IN  \E i \in 1..Len(order) :
            /\ m = order[i]
            /\ u[order[i]] < daily_limit(order[i])
            /\ \A j \in 1..(i - 1) : u[order[j]] >= daily_limit(order[j])

Continues(q, r) ==
    /\ q.model_name = r.model_name /\ q.date = r.date
    /\ q.request_count >= r.request_count
    /\ q.total_input_characters >= r.total_input_characters
    /\ q.total_output_characters >= r.total_output_characters

C21_AtomicIncrement ==
    (\A w \in Writers : inc_pc[w] = "idle") =>
        \A m \in GeminiModel :
            /\ performed[m] = 0 => RowsOf(ledger, m, today) = {}
            /\ performed[m] > 0 =>
                  /\ Cardinality(RowsOf(ledger, m, today)) = 1
                  /\ \A r \in RowsOf(ledger, m, today) : r.request_count = performed[m]

\* the earliest timestamp of a window
RECURSIVE OldestOf(_)
OldestOf(window) ==
    IF Len(window) = 1 THEN window[1][1]
    ELSE Min(window[1][1], OldestOf(Tail(window)))

\* C22: the delay calculate_adaptive_delay returns is never negative, and
\* whenever the tokens of the requests in the window plus the new estimate
\* exceed rate_limit, it is at least the time until the oldest request of
\* the window leaves the window.
C22_DelayCoversOldest ==
    LET r == gov_result
    IN  /\ r.delay >= 0
        /\ (r.window # <<>> /\ SumTokens(r.window) + r.tokens > rate_limit) =>
              r.delay >= (OldestOf(r.window) + WindowSeconds) - r.now

\* the governor found the budget exceeded by several requests in the window
\* and returned a wait other than the default
C22_Witness ==
    /\ provider = "gemini"
    /\ Len(gov_result.window) > 1
    /\ SumTokens(gov_result.window) + gov_result.tokens > rate_limit
    /\ gov_result.delay # DefaultDelay
    /\ gov_result.delay > BufferSeconds

\* C23: when a provider call is issued whose own estimate is within the
\* budget, the tokens of the calls issued in the preceding 60 seconds plus
\* that estimate do not exceed rate_limit.
C23_BudgetEnforced ==
    (provider = "gemini" /\ gov_pc = "issued" /\ gov_est <= rate_limit) =>
        gov_load <= rate_limit

\* requests recorded in the ledger view over all models
UsageTotal(u) ==
    u["FLASH_PREVIEW"] + u["FLASH_2_5"] + u["FLASH_2_0"] + u["FLASH_LITE"]

\* C24 as stated: whenever the quota usage of a call is recorded, the
\* checkpoint of the chunk that call was made for has already been committed.
C24_CommitBeforeUsage ==
    [][usage' # usage => (chunk_num + 1) \in written]_vars

\* C24: the steps of a successfully processed chunk occur in the order
\* selection, provider call, recording of the call's usage (Gemini), then
\* composition and commit of the checkpoint, then the delay: usage is
\* recorded right after the call and before the commit; at the commit the
\* chunk was called, its model selected and its usage recorded; the run
\* moves to the next chunk only from the delay after the commit.
C24_UsageBeforeCommit ==
    [][/\ usage' # usage =>
             /\ (chunk_num + 1) \in called
             /\ (chunk_num + 1) \notin written
             /\ selected_model # None
             /\ pc' = "save"
       /\ written' \notin {written, {}} =>
             /\ (chunk_num + 1) \in called
             /\ provider = "gemini" =>
                   /\ selected_model # None
                   /\ UsageTotal(usage) - UsageTotal(usage0) = Cardinality(written')
             /\ cumulative_summary' = chunk_summary
             /\ pc' \in {"delay", "finalize"}
       /\ (pc \notin Terminal /\ chunk_num' # chunk_num /\ pc' = "select") =>
             /\ pc = "delay"
             /\ (chunk_num + 1) \in written]_vars

\* a Gemini run committed a second chunk after recording its call
C24_Witness ==
    /\ provider = "gemini"
    /\ pc = "delay"
    /\ written = {1, 2}
    /\ UsageTotal(usage) - UsageTotal(usage0) = 2

\* C25: a provider call for chunk k+1 is issued only when the checkpoint of
\* chunk k is in the store, and the final summary is written to the session
\* only when the checkpoint of the last chunk is in the store.
C25_CommitBeforeAdvance ==
    [][/\ (called' # called /\ called' # {} /\ chunk_num >= 1) => chunk_num \in ChunkNumbers(chunks)
       /\ (pc = "finalize" /\ pc' = "returned") => num_chunks \in ChunkNumbers(chunks)]_vars

\* a run called and committed three chunks in order and wrote the final
\* summary
C25_Witness ==
    /\ pc = "returned"
    /\ summary_generated
    /\ num_chunks = 3
    /\ called = {1, 2, 3}
    /\ written = {1, 2, 3}
    /\ ChunkNumbers(chunks) = {1, 2, 3}

\* C26: a run on a session id that names no record, a record that is not a
\* session, or a session without transcript raises at once: no provider call
\* is made and the Checkpoint Store, the Quota Ledger and the session record
\* stay as they were.
C26_InvalidSessionRaises ==
    [][(session # "valid" /\ runs' # runs) =>
           /\ pc' = "raised"
           /\ result'.kind = "raise"
           /\ prov_calls' = 0
           /\ called' = {}
           /\ UNCHANGED <<chunks, usage, ledger, response_summary,
                          summary_generated>>]_vars

\* a second run on a session without transcript has raised
C26_Witness ==
    /\ session = "no_transcript"
    /\ runs = 2
    /\ pc = "raised"
    /\ result.kind = "raise"

\* C27 as stated: whenever the exception of a failed attempt names a wait d,
\* the loop sleeps d plus the buffer.
C27_HintAlwaysHonoured ==
    (pc = "sleep" /\ last_error.hint # NoHint) =>
        delay = last_error.hint + RetryBuffer

\* C27: when an exception classified as a Gemini rate limit names a wait d,
\* the loop sleeps d plus the buffer whatever the attempt; a wait named by
\* any other exception is ignored.
C27_HintHonouredOnRateLimit ==
    (pc = "sleep" /\ last_error.hint # NoHint) =>
        IF last_error.rate_limit
        THEN delay = last_error.hint + RetryBuffer
        ELSE delay = backoff_delay(FALSE, attempt)

\* the third attempt failed on a rate limit that names a wait of 7 seconds
C27_Witness ==
    /\ pc = "sleep"
    /\ attempt = 2
    /\ last_error = [rate_limit |-> TRUE, hint |-> 7]
    /\ delay = 7 + RetryBuffer

\* C28 as stated: without a named wait, the wait after every attempt but the
\* first is twice the wait of the attempt before, for rate limits and for
\* other errors.
C28_AlwaysDoubles ==
    (pc = "sleep" /\ last_error.hint = NoHint /\ attempt >= 1) =>
        delay = 2 * backoff_delay(last_error.rate_limit, attempt - 1)

\* C28: without a named wait, the wait after an error that is not a rate
\* limit starts at 5 seconds and doubles with every attempt, and the wait
\* after a rate limit starts at 15 seconds and grows by 15 seconds with
\* every attempt.
C28_DoublesOrGrowsLinearly ==
    (pc = "sleep" /\ last_error.hint = NoHint) =>
        IF last_error.rate_limit
        THEN /\ attempt = 0 => delay = 15
             /\ attempt >= 1 => delay = backoff_delay(TRUE, attempt - 1) + 15
        ELSE /\ attempt = 0 => delay = 5
             /\ attempt >= 1 => delay = 2 * backoff_delay(FALSE, attempt - 1)

\* the fourth attempt failed on a rate limit that names no wait
C28_Witness ==
    /\ pc = "sleep"
    /\ attempt = 3
    /\ last_error = [rate_limit |-> TRUE, hint |-> NoHint]
    /\ delay = 60

\* C29: every run that has started ends: it returns, raises or is
\* interrupted.
C29_RunTerminates ==
    (pc \notin Terminal) ~> (pc \in Terminal)

\* C30: when scan_repo has returned for a path and is called again with the
\* same path and limit, it returns no added commit, and the table never
\* holds two rows of one sha for the repository.
C30_ScanIdempotent ==
    /\ (/\ prev_scan.kind = "return"
        /\ last_scan.path = prev_scan.path
        /\ last_scan.limit = prev_scan.limit) => last_scan.added = {}
    /\ \A sha \in 1..NumCommits :
          Cardinality({r \in commits : r.sha = sha /\ r.repo_path = RepoLocation}) <= 1

\* C31: whenever a run has returned normally with every chunk 1..N of its
\* plan in the store, the session is marked summarized and its stored final
\* summary is the value returned.
C31_ReturnImpliesSummarized ==
    (Completed /\ (1..num_chunks) \subseteq ChunkNumbers(chunks)) =>
        /\ summary_generated
        /\ response_summary = result.value

\* C32: as long as every run of the session had the same plan, the chunk
\* numbers in the Checkpoint Store are 1..k for some k from 0 to N, in every
\* state: during a run, after a failure, after an interruption, after
\* resumes.
C32_ContiguousPrefix ==
    Cardinality(plan_log) <= 1 =>
        \E k \in 0..num_chunks : ChunkNumbers(chunks) = 1..k

\* the third run of a session resumes a store that two interrupted or
\* failed runs left with chunks 1 and 2 of 3
C32_Witness ==
    /\ Cardinality(plan_log) = 1
    /\ runs = 3
    /\ num_chunks = 3
    /\ first_missing = 3
    /\ ChunkNumbers(chunks0) = {1, 2}
    /\ pc = "call"

\* --------------------------------------------- runs on any stored chunks
\* a transcript of four chunks at the default chunk size
ResumeTranscript == MediumThreshold

\* the runs of summarize_session_chunked on a store that holds any subset
\* of the checkpoints of the transcript's default plan
ResumeInit ==
    /\ provider \in Providers
    /\ total_lines = ResumeTranscript
    /\ usage = [m \in GeminiModel |-> daily_limit(m) - Headroom]
    /\ chunks \in SUBSET RefChunks(DefaultChunkSize, ResumeTranscript)
    /\ response_summary = NoSummary
    /\ summary_generated = FALSE
    /\ pc = "idle"
    /\ chunk_size_lines = 0 /\ num_chunks = 0 /\ complexity = "small"
    /\ chunk_num = 0
    /\ cumulative_summary = EmptySummary
    /\ chunk_summary = NoSummary
    /\ attempt = 0
    /\ selected_model = None
    /\ delay = 0
    /\ result = NoResult
    /\ runs = 0
    /\ chunks0 = chunks /\ usage0 = usage /\ chunks_before = chunks
    /\ first_missing = 0
    /\ seed = EmptySummary
    /\ prov_calls = 0 /\ sleeps = 0
    /\ called = {} /\ written = {}
    /\ quota_hit = FALSE
    /\ plan_log = {}
    /\ today = 1
    /\ ledger = TableOf(usage, today)
    /\ WritersIdle
    /\ GovernorIdle
    /\ session \in SessionStates
    /\ last_error = NoError
    /\ GitIdle
    /\ RunnersIdle

SpecResume == ResumeInit /\ [][Next]_vars

C34_LimitUnderInterleaving ==
    /\ limit_calls = {}
    /\ \A m \in GeminiModel : UsageOf(ledger, today)[m] <= daily_limit(m)

\* C35: in a Gemini run the ledger changes only when a successful call is
\* recorded, and then the count of the model selected for that attempt grows
\* by exactly 1 and no other count changes; a failed attempt leaves the
\* ledger as it was; and in a run that is not interrupted the increase of
\* the ledger is the number of successful calls: one per checkpoint written,
\* plus the call recorded just before its checkpoint.
C35_OneIncrementPerSuccess ==
    /\ [][/\ usage' # usage =>
               /\ provider = "gemini"
               /\ pc = "track"
               /\ selected_model \in GeminiModel
               /\ usage' = [usage EXCEPT ![selected_model] = @ + 1]
               /\ UsageOf(ledger', today) = usage'
          /\ (pc = "call" /\ pc' \in {"sleep", "raised", "returned"}) =>
               /\ usage' = usage
               /\ ledger' = ledger
          /\ (pc = "call" /\ pc' = "track") => usage' = usage
          /\ (pc = "track" /\ pc' = "save") => usage' # usage]_vars
    /\ [](Planned /\ pc # "crashed" =>
            UsageTotal(usage) - UsageTotal(usage0) =
                IF provider = "gemini"
                THEN Cardinality(written) + (IF pc = "save" THEN 1 ELSE 0)
                ELSE 0)

\* a Gemini call that succeeded after a failed attempt has been recorded
\* for a model other than the first of the preferred order
C35_Witness ==
    /\ provider = "gemini"
    /\ pc = "save"
    /\ attempt >= 1
    /\ selected_model # preferred_order(complexity)[1]
    /\ usage[selected_model] = usage0[selected_model] + 1

\* the text carries the truncation marker, at its end or inside the
\* cumulative summary a response was generated from
RECURSIVE HasMarker(_)
HasMarker(text) ==
    IF text = <<>> THEN FALSE
    ELSE IF text[1] = "truncated" THEN TRUE
    ELSE IF text[1] = "summary" THEN HasMarker(text[5])
    ELSE FALSE

\* C36: no checkpoint, no stored final summary and no cumulative summary a
\* run works with carries the truncation marker; only a returned value does.
C36_MarkerOnlyReturned ==
    /\ \A c \in chunks :
          /\ ~ HasMarker(c.chunk_summary)
          /\ ~ HasMarker(c.cumulative_summary)
    /\ ~ HasMarker(response_summary)
    /\ ~ HasMarker(seed)
    /\ ~ HasMarker(cumulative_summary)
    /\ HasMarker(result.value) => result.kind = "truncated"

\* a run resumed from stored checkpoints has exhausted its retries and
\* returned the annotated summary
C36_Witness ==
    /\ pc = "returned"
    /\ result.kind = "truncated"
    /\ HasMarker(result.value)
    /\ runs >= 2
    /\ first_missing > 1
    /\ seed # EmptySummary

\* C37: whenever the tokens of the window plus the new estimate exceed
\* rate_limit, the delay calculate_adaptive_delay returns is at least the
\* delay it returns under the limit.
C37_OverBudgetAtLeastFloor ==
    (provider = "gemini"
        /\ SumTokens(gov_result.window) + gov_result.tokens > rate_limit) =>
        gov_result.delay >= DefaultDelay

C39_ResumePointHasPredecessor ==
    (Planned /\ pc # "crashed" /\ first_missing > 1) =>
        /\ first_missing - 1 \in ChunkNumbers(chunks0)
        /\ seed = CumulativeOf(chunks0, first_missing - 1)
        /\ seed # EmptySummary

\* a run resumes at chunk 2 of a store that holds chunks 1 and 3
C39_Witness ==
    /\ Planned /\ pc = "call"
    /\ ChunkNumbers(chunks0) = {1, 3}
    /\ first_missing = 2
    /\ seed = CumulativeOf(chunks0, 1)
====
